---- MODULE Spec2Model ----
(***************************************************************************)
(* Model of stream_ml.pytorch: the ControlRegions prior (prior/_track.py)  *)
(* and the skew-normal likelihood family (builtin/_skewnormal.py).         *)
(*                                                                         *)
(* Number representation.  TLC has integers only, so every real quantity   *)
(* lives on a fixed grid:                                                  *)
(*   prior:      coordinates, targets, widths, predictions in units of 1/2 *)
(*               lamda in units of 1/100, so a returned log-pdf is in      *)
(*               units of 1/400 (2.0 -> 4, 0.5 -> 1, 0.05 -> 5,            *)
(*               -0.0125 -> -5);                                           *)
(*   likelihood: value, loc, sigma, skew, a, b in units of 5e-11, so the   *)
(*               clip floor 1e-10 is the integer 2 and the value 1 is a    *)
(*               positive number below the floor.                          *)
(* A tensor is [shape |-> <<d1, ..., dk>>, data |-> row-major sequence].   *)
(***************************************************************************)
EXTENDS Integers, Sequences, FiniteSets, TLC

(* ------------------------------ bounds --------------------------------- *)
MaxC == 2
MaxF == 2
MaxTheta == 4
MaxCalls == 2
MaxN == 2
MaxCoords == 2

(* --------------------------- input domains ----------------------------- *)
CoordName == "phi1"
DepNamePool == <<"phi2", "pmphi1", "pmphi2", "distmod">>
TargetPatterns == 0..3
ScalarWidths == {0, 1}
ColumnWidths == {1, 2}
LamdaVals == {0, 5}
CurVals == {<<>>, <<7>>}
Thetas == 0..MaxTheta
CoordPool == {"phi1", "phi2"}
BoundsChoices == {<<0 - 4, 4>>, <<0 - 2, 4>>}
DataVals == {0, 2}
MuVals == {0, 2}
SigmaVals == {0, 1, 4}
SkewVals == {0 - 2, 1, 4}
FnValueVals == {0 - 2, 0, 2}
FnLocVals == {0 - 2, 0, 2}
FnSigmaVals == {1, 2, 4}
FnSkewVals == {0 - 2, 0, 1, 2, 4}
FnBounds == {<<0 - 2, 0>>, <<0 - 2, 2>>, <<0, 2>>}

VARIABLES
  prior,      \* the ControlRegions object: configuration and derived fields
  prior0,     \* history: the object as construction left it
  theta,      \* the network's current parameters
  calltheta,  \* history: the network's parameters at the latest logpdf call
  callcur,    \* history: current_lnpdf of the latest logpdf call
  ncalls,     \* number of logpdf calls so far
  nqueries,   \* number of model(...) evaluations so far
  queried,    \* the coordinate arrays the latest logpdf call passed to the model
  out,        \* outcome of the latest logpdf call
  obj,        \* the likelihood model object the latest construction yielded, if any
  attempt,    \* history: the arguments of the latest construction
  err,        \* the error the latest construction raised, "none" if it returned
  call,       \* history: <<[mpars, data]>> of the ln_likelihood call made on obj
  lik,        \* the array ln_likelihood returned, <<>> before the call
  args,       \* the arguments the pure functions are applied to
  res         \* the pure functions' results, each <<>> until it is applied

priorvars == <<prior, prior0, theta, calltheta, callcur, ncalls, nqueries, queried, out>>
likevars == <<obj, attempt, err, call, lik>>

fnvars == <<args, res>>

vars == <<priorvars, likevars, fnvars>>

(* --------------------------- tensor helpers ---------------------------- *)
RECURSIVE SumSeq(_)
SumSeq(s) == IF s = <<>> THEN 0 ELSE Head(s) + SumSeq(Tail(s))

NotOne(d) == d # 1

\* torch.squeeze(t): drop every dimension of size 1; the elements keep their order
squeeze(t) == [shape |-> SelectSeq(t.shape, NotOne), data |-> t.data]

\* _atleast_2d
atleast_2d(x) ==
  IF Len(x.shape) = 0 THEN [shape |-> <<1, 1>>, data |-> x.data]
  ELSE IF Len(x.shape) = 1 THEN [shape |-> <<x.shape[1], 1>>, data |-> x.data]
  ELSE x

\* torch.ones_like(t) * v
ones_like_times(t, v) == [shape |-> t.shape, data |-> [k \in 1..Len(t.data) |-> v]]

\* torch.zeros_like(t)
zeros_like(t) == [shape |-> t.shape, data |-> [k \in 1..Len(t.data) |-> 0]]

\* element (i, j) of a 2-D tensor, 1-based
At(t, i, j) == t.data[(i - 1) * t.shape[2] + j]

\* position of name n in the tuple of names
IndexOf(names, n) == CHOOSE k \in 1..Len(names) : names[k] = n

\* Data.__getitem__ with a tuple of names: the selected columns, as a Data
DataCols(d, names) ==
  LET R == d.array.shape[1]
      K == Len(names)
  IN [names |-> names,
      array |-> [shape |-> <<R, K>>,
                 data |-> [k \in 1..(R * K) |->
                             At(d.array, ((k - 1) \div K) + 1,
                                IndexOf(d.names, names[((k - 1) % K) + 1]))]]]

\* torch.stack(arrays, 1) of F one-dimensional arrays of length C: shape (C, F)
stack1(arrays) ==
  LET F == Len(arrays)
      C == arrays[1].shape[1]
  IN [shape |-> <<C, F>>,
      data |-> [k \in 1..(C * F) |-> arrays[((k - 1) % F) + 1].data[((k - 1) \div F) + 1]]]

\* broadcasting of two 2-D shapes; <<>> when they are incompatible
BroadcastShape(s, t) ==
  IF \A k \in 1..2 : s[k] = t[k] \/ s[k] = 1 \/ t[k] = 1
  THEN [k \in 1..2 |-> IF s[k] = 1 THEN t[k] ELSE s[k]]
  ELSE <<>>

(* ----------------------- configuration (inputs) ------------------------ *)
\* the first F dependent column names, with the coordinate column at position pos
CenterNames(F, pos) ==
  [k \in 1..(F + 1) |-> IF k = pos THEN CoordName
                        ELSE IF k < pos THEN DepNamePool[k] ELSE DepNamePool[k - 1]]

DepIdx(n) == CHOOSE k \in 1..Len(DepNamePool) : DepNamePool[k] = n

\* coordinate of control point i: 10.0, 10.5, 11.0, ...
XOf(i) == 20 + (i - 1)

\* target of control point i in dependent column j: 2.0 or 3.0, laid out by pattern
TargetOf(pat, i, j) == 4 + 2 * (((pat \div 2) * (i + j) + pat) % 2)

\* a center: C control points over the coordinate and F dependent columns
MakeCenter(C, F, pos, pat) ==
  LET names == CenterNames(F, pos)
  IN [names |-> names,
      array |-> [shape |-> <<C, F + 1>>,
                 data |-> [k \in 1..(C * (F + 1)) |->
                            LET i == ((k - 1) \div (F + 1)) + 1
                                n == names[((k - 1) % (F + 1)) + 1]
                            IN IF n = CoordName THEN XOf(i) ELSE TargetOf(pat, i, DepIdx(n))]]]

NoData == [names |-> <<>>, array |-> [shape |-> <<0, 0>>, data |-> <<>>]]

FloatWidth(v) == [kind |-> "float", value |-> v, data |-> NoData]

\* a width given as Data: one row per control point, one column per dependent name
DataWidth(C, F, colw) ==
  [kind |-> "Data", value |-> 0,
   data |-> [names |-> [k \in 1..F |-> DepNamePool[k]],
             array |-> [shape |-> <<C, F>>,
                        data |-> [k \in 1..(C * F) |-> colw[((k - 1) % F) + 1]]]]]

(* --------------------------- ControlRegions ---------------------------- *)
IsDep(n) == n # CoordName

\* ControlRegions.__post_init__: the object with its derived fields x, y_names, y, w
post_init(center, width, lamda) ==
  LET x == DataCols(center, <<CoordName>>)
      dep_names == SelectSeq(center.names, IsDep)
      y == atleast_2d(squeeze(DataCols(center, dep_names).array))
      w == IF width.kind # "float"
           THEN atleast_2d(squeeze(DataCols(width.data, dep_names).array))
           ELSE ones_like_times(y, width.value)
  IN [center |-> center, width |-> width, lamda |-> lamda,
      coord_name |-> CoordName, component_param_name |-> "mu",
      x |-> x, y_names |-> dep_names, y |-> y, w |-> w]

\* the network's forward pass at coordinate xv for parameter (n, p), given its
\* current parameters th: an arbitrary fixed function, 1.0 .. 3.0 for "mu"
forward(th, xv, n, p) ==
  IF p = "mu" THEN 2 + ((th + xv + 2 * DepIdx(n)) % 5) ELSE 1

ParamKeys(names) == {<<names[k], p>> : k \in 1..Len(names), p \in {"mu", "sigma"}}

\* mutant of model_call: the predictions are those of the network's parameters at
\* construction (theta = 0), a snapshot instead of a fresh evaluation
model_call_cached(th, x, names) ==
  [key \in ParamKeys(names) |->
     [shape |-> <<x.array.shape[1]>>,
      data |-> [i \in 1..x.array.shape[1] |-> forward(0, At(x.array, i, 1), key[1], key[2])]]]

\* model.unpack_params(model(x)): for every (name, parameter) a 1-D array with one
\* value per row of x, computed from the network's current parameters
model_call(th, x, names) ==
  [key \in ParamKeys(names) |->
     [shape |-> <<x.array.shape[1]>>,
      data |-> [i \in 1..x.array.shape[1] |-> forward(th, At(x.array, i, 1), key[1], key[2])]]]

EmptyTensor == [shape |-> <<>>, data |-> <<>>]

\* what the masked indexing of lines 140-143 does with these shapes: a boolean mask
\* must have the shape of the tensor it indexes
mask_status(cmp_shape, y_shape, w_shape) ==
  LET m == BroadcastShape(cmp_shape, BroadcastShape(y_shape, w_shape))
  IN IF BroadcastShape(y_shape, w_shape) = <<>> \/ m = <<>> THEN "RuntimeError"
     ELSE IF m # cmp_shape \/ m # y_shape \/ m # w_shape THEN "IndexError"
     ELSE "ok"

\* lines 139-143: pdf starts as zeros; the elements at or below the lower band edge
\* are overwritten with the squared distance to it, then those at or above the
\* upper band edge with the squared distance to that one
penalty_array(cmp_arr, y, w) ==
  LET pdf0 == zeros_like(cmp_arr)
      lower(k) == cmp_arr.data[k] <= y.data[k] - w.data[k]
      pdf1 == [k \in 1..Len(cmp_arr.data) |->
                 IF lower(k)
                 THEN (cmp_arr.data[k] - (y.data[k] - w.data[k]))
                      * (cmp_arr.data[k] - (y.data[k] - w.data[k]))
                 ELSE pdf0.data[k]]
      upper(k) == cmp_arr.data[k] >= y.data[k] + w.data[k]
      pdf2 == [k \in 1..Len(cmp_arr.data) |->
                 IF upper(k)
                 THEN (cmp_arr.data[k] - (y.data[k] + w.data[k]))
                      * (cmp_arr.data[k] - (y.data[k] + w.data[k]))
                 ELSE pdf1[k]]
  IN [shape |-> pdf0.shape, data |-> pdf2]

\* mutant of logpdf_return: the term is added to current_lnpdf when one is given
logpdf_return_added(lamda, pdf, cur) ==
  (IF cur = <<>> THEN 0 ELSE cur[1]) + (0 - lamda) * SumSeq(pdf.data)

\* line 145
logpdf_return(lamda, pdf, cur) == (0 - lamda) * SumSeq(pdf.data)

\* mutant of self_after: pdf aliases self._y, so the masked writes land in the object
self_after_aliased(self, pdf) == [self EXCEPT !.y = pdf]

\* the tensor zeros_like(cmp_arr) is fresh: writing pdf leaves self alone
self_after(self, pdf) == self

\* ControlRegions.logpdf(mpars, data, model, current_lnpdf): the object after the
\* call, the model evaluations made, and the outcome
logpdf(self, th, cur) ==
  LET cmpars == model_call(th, self.x, self.y_names)
      cmp_arr == stack1([k \in 1..Len(self.y_names) |->
                           cmpars[<<self.y_names[k], self.component_param_name>>]])
      status == mask_status(cmp_arr.shape, self.y.shape, self.w.shape)
      pdf == IF status = "ok" THEN penalty_array(cmp_arr, self.y, self.w) ELSE EmptyTensor
  IN [self |-> IF status = "ok" THEN self_after(self, pdf) ELSE self,
      queries |-> <<self.x>>,
      out |-> [status |-> status,
               value |-> IF status = "ok" THEN logpdf_return(self.lamda, pdf, cur) ELSE 0,
               pdf |-> pdf]]

(* ------------------------ skew-normal family --------------------------- *)
Abs(n) == IF n < 0 THEN 0 - n ELSE n

RECURSIVE Gcd(_, _)
Gcd(a, b) == IF b = 0 THEN a ELSE Gcd(b, a % b)

\* the rational n/d, d > 0, in lowest terms
Frac(n, d) ==
  LET g == Gcd(Abs(n), d)
  IN [num |-> n \div g, den |-> d \div g]

\* erf(z / sqrt2) to four decimals at z = h/2, h = 1..8
ErfTable == <<3829, 6827, 8664, 9545, 9876, 9973, 9995, 9999>>

\* the scale of ErfTable: 1.0 is 10000
ErfScale == 10000

\* xp.erf(n / d / _sqrt2) for d > 0 and n/d a multiple of 1/2; odd, strictly
\* increasing, and 1.0 to four decimals beyond z = 4
erf(n, d) ==
  LET h == (2 * Abs(n)) \div d
      e == IF h = 0 THEN 0 ELSE IF h > Len(ErfTable) THEN ErfScale ELSE ErfTable[h]
  IN IF n < 0 THEN 0 - e ELSE e

\* xp.log of the rational n/d, d > 0: a finite logarithm is represented by its
\* argument in lowest terms (log is injective), a non-finite one by 0/0
log(n, d) == IF n > 0 THEN Frac(n, d) ELSE [num |-> 0, den |-> 0]

\* norm_logpdf(value, loc, sigma) = -0.5*((value-loc)/sigma)^2 - log(sigma)
\* - 0.5*log(2*pi): represented by the squared standardized residual and sigma
norm_logpdf(value, loc, sigma) ==
  [q |-> Frac((value - loc) * (value - loc), sigma * sigma), lnsigma |-> sigma]

\* skewnorm_logpdf: norm_logpdf(...) + log(1 + erf(skew*(value-loc)/sigma/sqrt2));
\* the second term is represented by the argument of erf in lowest terms
\* (erf and log(1 + .) are injective)
skewnorm_logpdf(value, loc, sigma, skew) ==
  [norm |-> norm_logpdf(value, loc, sigma),
   log1perf |-> Frac(skew * (value - loc), sigma)]

\* mutant of log_truncation_term: the term follows skew, the normal CDF difference at skew = 0
log_truncation_term_skewed(ab, loc, sigma, skew) ==
  LET erfa == erf(ab[1] - loc, sigma)
      erfb == erf(ab[2] - loc, sigma)
  IN IF skew = 0 THEN log(erfb - erfa, 2 * ErfScale)
     ELSE log((erfb - erfa) * (erfb + erfa + 2 * ErfScale), 4 * ErfScale * ErfScale)

\* log_truncation_term: log(erfb - erfa) + log(erfb + erfa + 2) - log(4), the sum
\* of logarithms held as the logarithm of the product
log_truncation_term(ab, loc, sigma, skew) ==
  LET erfa == erf(ab[1] - loc, sigma)
      erfb == erf(ab[2] - loc, sigma)
  IN IF erfb - erfa > 0 /\ erfb + erfa + 2 * ErfScale > 0
     THEN log((erfb - erfa) * (erfb + erfa + 2 * ErfScale), 4 * ErfScale * ErfScale)
     ELSE log(0, 1)

\* truncatedskewnorm_logpdf: skewnorm_logpdf(...) - log_truncation_term(...)
truncatedskewnorm_logpdf(value, loc, sigma, skew, ab) ==
  [skewnorm |-> skewnorm_logpdf(value, loc, sigma, skew),
   minus |-> log_truncation_term(ab, loc, sigma, skew)]

\* the floor 1e-10 of xp.clip, in units of 5e-11
ClipMin == 2

\* mutant of clip: only non-positive values are raised to the floor
clip_nonpositive(x, lo) == IF x <= 0 THEN lo ELSE x

\* xp.clip(x, lo): elementwise max(x, lo)
clip(x, lo) == IF x < lo THEN lo ELSE x

\* Data.__getitem__ with one name: that column as a 1-D array
DataCol(d, c) == [i \in 1..d.array.shape[1] |-> At(d.array, i, IndexOf(d.names, c))]

NoModel == [kind |-> "none", coord_names |-> <<>>, coord_bounds |-> <<>>]

\* mutant of coord_names_ok: only more than one coordinate is rejected
coord_names_ok_atmost(coord_names) == Len(coord_names) <= 1

\* SkewNormal.__post_init__ / TruncatedSkewNormal.__post_init__: the validation
coord_names_ok(coord_names) == Len(coord_names) = 1

\* the construction of a SkewNormal or TruncatedSkewNormal
construct(kind, coord_names, coord_bounds) ==
  IF ~coord_names_ok(coord_names)
  THEN [err |-> "ValueError", obj |-> NoModel]
  ELSE [err |-> "none",
        obj |-> [kind |-> kind, coord_names |-> coord_names, coord_bounds |-> coord_bounds]]

\* SkewNormal.ln_likelihood
SkewNormal_ln_likelihood(self, mpars, data) ==
  LET c == self.coord_names[1]
      col == DataCol(data, c)
  IN [i \in 1..Len(col) |->
        skewnorm_logpdf(col[i], mpars[<<c, "mu">>][i],
                        clip(mpars[<<c, "sigma">>][i], ClipMin),
                        clip(mpars[<<c, "skew">>][i], ClipMin))]

\* TruncatedSkewNormal.ln_likelihood
TruncatedSkewNormal_ln_likelihood(self, mpars, data) ==
  LET c == self.coord_names[1]
      col == DataCol(data, c)
  IN [i \in 1..Len(col) |->
        truncatedskewnorm_logpdf(col[i], mpars[<<c, "mu">>][i],
                                 clip(mpars[<<c, "sigma">>][i], ClipMin),
                                 clip(mpars[<<c, "skew">>][i], ClipMin),
                                 self.coord_bounds[self.coord_names[1]])]

(* ------------------------------ actions -------------------------------- *)
NoOut == [status |-> "none", value |-> 0, pdf |-> EmptyTensor]

NoAttempt == [kind |-> "none", coord_names |-> <<>>]

NoArgs == [value |-> 0, loc |-> 0, sigma |-> 1, skew |-> 0, ab |-> <<0, 0>>]

NoRes == [sn |-> <<>>, trunc |-> <<>>, tsn |-> <<>>]

PriorIdle ==
  /\ prior = 0 /\ prior0 = 0 /\ theta = 0 /\ calltheta = 0 /\ callcur = <<>>
  /\ ncalls = 0 /\ nqueries = 0 /\ queried = <<>> /\ out = NoOut

LikeIdle ==
  /\ obj = NoModel /\ attempt = NoAttempt /\ err = "none" /\ call = <<>> /\ lik = <<>>

FnIdle == args = NoArgs /\ res = NoRes

Widths(C, F) ==
  {FloatWidth(v) : v \in ScalarWidths} \cup
  {DataWidth(C, F, colw) : colw \in [1..F -> ColumnWidths]}

InitPrior ==
  /\ \E C \in 1..MaxC, F \in 1..MaxF, pat \in TargetPatterns, lamda \in LamdaVals :
       \E pos \in {1, F + 1}, width \in Widths(C, F) :
         prior = post_init(MakeCenter(C, F, pos, pat), width, lamda)
  /\ prior0 = prior
  /\ theta = 0
  /\ calltheta = 0
  /\ callcur = <<>>
  /\ ncalls = 0
  /\ nqueries = 0
  /\ queried = <<>>
  /\ out = NoOut
  /\ LikeIdle
  /\ FnIdle

\* an optimizer step of the surrounding training loop: the network's parameters change
Train ==
  /\ \E th \in Thetas \ {theta} : theta' = th
  /\ UNCHANGED <<prior, prior0, calltheta, callcur, ncalls, nqueries, queried, out>>
  /\ UNCHANGED <<likevars, fnvars>>

\* one call prior.logpdf(mpars, data, model, current_lnpdf)
Logpdf ==
  /\ ncalls < MaxCalls
  /\ \E cur \in CurVals :
       LET r == logpdf(prior, theta, cur)
       IN /\ prior' = r.self
          /\ out' = r.out
          /\ queried' = r.queries
          /\ nqueries' = nqueries + Len(r.queries)
          /\ callcur' = cur
  /\ calltheta' = theta
  /\ ncalls' = ncalls + 1
  /\ UNCHANGED <<prior0, theta>>
  /\ UNCHANGED <<likevars, fnvars>>

NextPrior == Train \/ Logpdf

PriorSpec == InitPrior /\ [][NextPrior]_vars

\* every tuple of at most MaxCoords coordinate names
CoordTuples == UNION {[1..n -> CoordPool] : n \in 0..MaxCoords}

\* coord_bounds: the configured (lower, upper) bound of each coordinate name
BoundsFor(coord_names) == [{coord_names[k] : k \in 1..Len(coord_names)} -> BoundsChoices]

InitLike == PriorIdle /\ LikeIdle /\ FnIdle

\* SkewNormal(coord_names=..., coord_bounds=...)
ConstructSkewNormal ==
  /\ obj = NoModel
  /\ \E cn \in CoordTuples :
       \E cb \in BoundsFor(cn) :
         LET r == construct("SkewNormal", cn, cb)
         IN /\ obj' = r.obj
            /\ err' = r.err
            /\ attempt' = [kind |-> "SkewNormal", coord_names |-> cn]
  /\ call' = <<>>
  /\ lik' = <<>>
  /\ UNCHANGED <<priorvars, fnvars>>

\* TruncatedSkewNormal(coord_names=..., coord_bounds=...)
ConstructTruncatedSkewNormal ==
  /\ obj = NoModel
  /\ \E cn \in CoordTuples :
       \E cb \in BoundsFor(cn) :
         LET r == construct("TruncatedSkewNormal", cn, cb)
         IN /\ obj' = r.obj
            /\ err' = r.err
            /\ attempt' = [kind |-> "TruncatedSkewNormal", coord_names |-> cn]
  /\ call' = <<>>
  /\ lik' = <<>>
  /\ UNCHANGED <<priorvars, fnvars>>

DataNames == <<"phi1", "phi2">>

\* N rows of data over DataNames, column c holding col and the other column 3e-10,
\* which is no value of DataVals
MakeData(c, col) ==
  [names |-> DataNames,
   array |-> [shape |-> <<Len(col), 2>>,
              data |-> [k \in 1..(2 * Len(col)) |->
                          IF DataNames[((k - 1) % 2) + 1] = c
                          THEN col[((k - 1) \div 2) + 1] ELSE 6]]]

MakeMpars(c, mu, sigma, skew) ==
  [key \in {<<c, "mu">>, <<c, "sigma">>, <<c, "skew">>} |->
     IF key[2] = "mu" THEN mu ELSE IF key[2] = "sigma" THEN sigma ELSE skew]

\* model.ln_likelihood(mpars, data) on the constructed object
LnLikelihood ==
  /\ obj # NoModel
  /\ call = <<>>
  /\ \E N \in 1..MaxN :
       \E col \in [1..N -> DataVals], mu \in [1..N -> MuVals],
          sigma \in [1..N -> SigmaVals], skew \in [1..N -> SkewVals] :
         LET c == obj.coord_names[1]
             mpars == MakeMpars(c, mu, sigma, skew)
             data == MakeData(c, col)
         IN /\ call' = <<[mpars |-> mpars, data |-> data]>>
            /\ lik' = IF obj.kind = "SkewNormal"
                      THEN SkewNormal_ln_likelihood(obj, mpars, data)
                      ELSE TruncatedSkewNormal_ln_likelihood(obj, mpars, data)
  /\ UNCHANGED <<obj, attempt, err>>
  /\ UNCHANGED <<priorvars, fnvars>>

NextLike == ConstructSkewNormal \/ ConstructTruncatedSkewNormal \/ LnLikelihood

LikeSpec == InitLike /\ [][NextLike]_vars

InitFn ==
  /\ PriorIdle
  /\ LikeIdle
  /\ \E value \in FnValueVals, loc \in FnLocVals, sigma \in FnSigmaVals,
        skew \in FnSkewVals, ab \in FnBounds :
       args = [value |-> value, loc |-> loc, sigma |-> sigma, skew |-> skew, ab |-> ab]
  /\ res = NoRes

ApplySkewnormLogpdf ==
  /\ res.sn = <<>>
  /\ res' = [res EXCEPT !.sn = <<skewnorm_logpdf(args.value, args.loc, args.sigma, args.skew)>>]
  /\ UNCHANGED <<args, priorvars, likevars>>

ApplyLogTruncationTerm ==
  /\ res.trunc = <<>>
  /\ res' = [res EXCEPT !.trunc = <<log_truncation_term(args.ab, args.loc, args.sigma, args.skew)>>]
  /\ UNCHANGED <<args, priorvars, likevars>>

ApplyTruncatedSkewnormLogpdf ==
  /\ res.tsn = <<>>
  /\ res' = [res EXCEPT !.tsn = <<truncatedskewnorm_logpdf(args.value, args.loc, args.sigma,
                                                          args.skew, args.ab)>>]
  /\ UNCHANGED <<args, priorvars, likevars>>

NextFn == ApplySkewnormLogpdf \/ ApplyLogTruncationTerm \/ ApplyTruncatedSkewnormLogpdf

FnSpec == InitFn /\ [][NextFn]_vars

(* ======================= properties: the prior ========================= *)
\* the configuration as given, read straight from center and width
NumPoints(self) == self.center.array.shape[1]

DepNames(self) == SelectSeq(self.center.names, IsDep)

NumDeps(self) == Len(DepNames(self))

TargetAt(self, i, j) == At(self.center.array, i, IndexOf(self.center.names, DepNames(self)[j]))

WidthAt(self, i, j) ==
  IF self.width.kind = "float" THEN self.width.value
  ELSE At(self.width.data.array, i, IndexOf(self.width.data.names, DepNames(self)[j]))

CoordAt(self, i) == At(self.center.array, i, IndexOf(self.center.names, self.coord_name))

PredAt(self, th, i, j) == forward(th, CoordAt(self, i), DepNames(self)[j], "mu")

\* the penalty as the documentation states it
SpecPenalty(p, y, w) ==
  IF y - w < p /\ p < y + w THEN 0
  ELSE IF p <= y - w THEN (p - (y - w)) * (p - (y - w))
  ELSE (p - (y + w)) * (p - (y + w))

PenaltyAt(self, th, i, j) == SpecPenalty(PredAt(self, th, i, j), TargetAt(self, i, j), WidthAt(self, i, j))

\* -lamda * (sum of the penalties over all control points and dependent columns)
ExpectedValue(self, th) ==
  LET C == NumPoints(self)
      F == NumDeps(self)
  IN (0 - self.lamda) *
     SumSeq([k \in 1..(C * F) |-> PenaltyAt(self, th, ((k - 1) \div F) + 1, ((k - 1) % F) + 1)])

\* C1: after a logpdf call, every (control point, dependent column) pair has the
\* penalty 0 strictly inside the band and at its edges, and the squared distance
\* to the nearer edge outside it.
C1_PenaltyPiecewise ==
  ncalls > 0 =>
    /\ out.status = "ok"
    /\ out.pdf.shape = <<NumPoints(prior0), NumDeps(prior0)>>
    /\ \A i \in 1..NumPoints(prior0), j \in 1..NumDeps(prior0) :
         /\ At(out.pdf, i, j) = PenaltyAt(prior0, calltheta, i, j)
         /\ LET p == PredAt(prior0, calltheta, i, j)
                y == TargetAt(prior0, i, j)
                w == WidthAt(prior0, i, j)
            IN /\ (y - w <= p /\ p <= y + w) => At(out.pdf, i, j) = 0
               /\ (p < y - w \/ p > y + w) => At(out.pdf, i, j) > 0

\* C1, where the call returns: the same statement restricted to the calls that do
\* not raise.
C1_PenaltyPiecewiseWhenReturned ==
  (ncalls > 0 /\ out.status = "ok") =>
    /\ out.pdf.shape = <<NumPoints(prior0), NumDeps(prior0)>>
    /\ \A i \in 1..NumPoints(prior0), j \in 1..NumDeps(prior0) :
         At(out.pdf, i, j) = PenaltyAt(prior0, calltheta, i, j)

\* C2: a logpdf call returns -lamda times the sum of the elementwise penalties,
\* hence 0 when lamda = 0; one control point with target 2.0, width 0.5 and
\* lamda 0.05 gives 0.0 for the prediction 2.0 and -0.0125 for 3.0.
C2_ReturnsWeightedSum ==
  ncalls > 0 =>
    /\ out.status = "ok"
    /\ out.value = ExpectedValue(prior0, calltheta)
    /\ prior0.lamda = 0 => out.value = 0
    /\ ( /\ NumPoints(prior0) = 1 /\ NumDeps(prior0) = 1
         /\ TargetAt(prior0, 1, 1) = 4 /\ WidthAt(prior0, 1, 1) = 1 /\ prior0.lamda = 5 )
       => /\ PredAt(prior0, calltheta, 1, 1) = 4 => out.value = 0
          /\ PredAt(prior0, calltheta, 1, 1) = 6 => out.value = 0 - 5

\* C2, where the call returns.
C2_ReturnsWeightedSumWhenReturned ==
  (ncalls > 0 /\ out.status = "ok") => out.value = ExpectedValue(prior0, calltheta)

\* the calls that raise are exactly those on a prior with one control point and
\* more than one dependent column
RaisesOnlyOnOneRowManyColumns ==
  ncalls > 0 =>
    /\ out.status \in {"ok", "IndexError"}
    /\ out.status = "IndexError" <=> (NumPoints(prior0) = 1 /\ NumDeps(prior0) > 1)

C5_DerivedFieldsImmutable ==
  /\ prior.x = prior0.x
  /\ prior.y = prior0.y
  /\ prior.y_names = prior0.y_names
  /\ prior.w = prior0.w
  /\ prior = prior0

\* C5 witness: two calls were made, the latest with non-zero penalties, under
\* parameters other than those at construction.
C5_Witness ==
  /\ ncalls >= 2
  /\ calltheta # 0
  /\ out.status = "ok"
  /\ out.value < 0
  /\ prior.y = prior0.y
  /\ prior.w = prior0.w

\* C6: after construction y has shape (C, F), indexed (control point, dependent
\* column), and w has the shape of y and holds the width of each pair.
C6_ShapeIsPointsByColumns ==
  /\ prior.y.shape = <<NumPoints(prior), NumDeps(prior)>>
  /\ prior.w.shape = prior.y.shape
  /\ \A i \in 1..NumPoints(prior), j \in 1..NumDeps(prior) :
       /\ At(prior.y, i, j) = TargetAt(prior, i, j)
       /\ At(prior.w, i, j) = WidthAt(prior, i, j)

\* C6, except for one control point with several columns: there the shape is (F, 1).
C6_ShapeExceptOneRowManyColumns ==
  /\ prior.w.shape = prior.y.shape
  /\ IF NumPoints(prior) = 1 /\ NumDeps(prior) > 1
     THEN prior.y.shape = <<NumDeps(prior), 1>>
     ELSE /\ prior.y.shape = <<NumPoints(prior), NumDeps(prior)>>
          /\ \A i \in 1..NumPoints(prior), j \in 1..NumDeps(prior) :
               /\ At(prior.y, i, j) = TargetAt(prior, i, j)
               /\ At(prior.w, i, j) = WidthAt(prior, i, j)

(* ===================== properties: the likelihoods ===================== *)
\* C7: a construction with a number of coordinate names other than one raises
\* ValueError and yields no object; with exactly one name it yields the object.
C7_ExactlyOneCoordinate ==
  attempt.kind # "none" =>
    IF Len(attempt.coord_names) = 1
    THEN err = "none" /\ obj.kind = attempt.kind /\ obj.coord_names = attempt.coord_names
    ELSE err = "ValueError" /\ obj = NoModel

\* C7 witness: a TruncatedSkewNormal over two coordinate names was refused.
C7_Witness ==
  /\ attempt.kind = "TruncatedSkewNormal"
  /\ Len(attempt.coord_names) = 2
  /\ err = "ValueError"
  /\ obj = NoModel

Floor(x) == IF x >= ClipMin THEN x ELSE ClipMin

FloorAll(a) == [i \in 1..Len(a) |-> Floor(a[i])]

\* C8: ln_likelihood is skewnorm_logpdf (truncatedskewnorm_logpdf with the
\* coordinate's configured bound) of the data column, mu unchanged, and sigma and
\* skew raised to the floor; so values below the floor give what the floor gives.
C8_LnLikelihoodClips ==
  call # <<>> =>
    LET c == obj.coord_names[1]
        mp == call[1].mpars
        d == call[1].data
        N == d.array.shape[1]
        X(i) == At(d.array, i, IndexOf(d.names, c))
        mu == mp[<<c, "mu">>]
        sigma == mp[<<c, "sigma">>]
        skew == mp[<<c, "skew">>]
        floored == MakeMpars(c, mu, FloorAll(sigma), FloorAll(skew))
    IN /\ Len(lik) = N
       /\ \A i \in 1..N :
            lik[i] = IF obj.kind = "SkewNormal"
                     THEN skewnorm_logpdf(X(i), mu[i], Floor(sigma[i]), Floor(skew[i]))
                     ELSE truncatedskewnorm_logpdf(X(i), mu[i], Floor(sigma[i]), Floor(skew[i]),
                                                   obj.coord_bounds[c])
       /\ lik = IF obj.kind = "SkewNormal"
                THEN SkewNormal_ln_likelihood(obj, floored, d)
                ELSE TruncatedSkewNormal_ln_likelihood(obj, floored, d)

\* C8 witness: a TruncatedSkewNormal evaluated on two samples, one with a positive
\* sigma below the floor and one with a negative skew.
C8_Witness ==
  /\ call # <<>>
  /\ obj.kind = "TruncatedSkewNormal"
  /\ Len(lik) = 2
  /\ LET c == obj.coord_names[1]
     IN /\ \E i \in 1..2 : call[1].mpars[<<c, "sigma">>][i] = 1
        /\ \E i \in 1..2 : call[1].mpars[<<c, "skew">>][i] < 0
        /\ \E i \in 1..2 : call[1].mpars[<<c, "mu">>][i] # At(call[1].data.array, i, IndexOf(DataNames, c))

\* C9: at skew = 0 the truncation term is the logarithm of the normal CDF
\* difference Phi(b') - Phi(a') = (erfb - erfa)/2.
C9_SkewZeroIsNormalCdfDifference ==
  (res.trunc # <<>> /\ args.skew = 0) =>
    LET erfa == erf(args.ab[1] - args.loc, args.sigma)
        erfb == erf(args.ab[2] - args.loc, args.sigma)
    IN res.trunc[1] = log(erfb - erfa, 2 * ErfScale)

\* what the term is instead: log(Phi(b')^2 - Phi(a')^2), the normal CDF difference
\* only where erfb + erfa = 0.
C9_TermIsDifferenceOfSquares ==
  res.trunc # <<>> =>
    LET erfa == erf(args.ab[1] - args.loc, args.sigma)
        erfb == erf(args.ab[2] - args.loc, args.sigma)
    IN /\ res.trunc[1] = Frac((erfb + ErfScale) * (erfb + ErfScale) - (erfa + ErfScale) * (erfa + ErfScale),
                              4 * ErfScale * ErfScale)
       /\ res.trunc[1] = log(erfb - erfa, 2 * ErfScale) <=> erfb + erfa = 0

====
